---------------------------- MODULE Spec2Model ----------------------------
(***************************************************************************)
(* A model of pyetf's two scraping modules.                                *)
(*                                                                         *)
(*   _etfdb_scraper.py  ETFListScraper: the paginated catalog scraper      *)
(*                      (_parse_etf_record, _scrape_page, get_etfs) and    *)
(*                      get_all_etfs.                                      *)
(*   _etfdb_client.py   ETFDBClient: ticker resolution against the         *)
(*                      memoized catalog, and the section extractors of    *)
(*                      one parsed document.                               *)
(*                                                                         *)
(* Python dictionaries are functions whose domain is the set of keys that  *)
(* are present; Python lists are sequences; a call either returns a value  *)
(* or raises, which is the record Return(v) or Raise(exc).                 *)
(***************************************************************************)
EXTENDS Integers, Sequences, FiniteSets, TLC

VARIABLES
    \* ---- _etfdb_scraper.py ----
    caller,     \* who drives the generator: "none", "get_etfs", "get_all_etfs"
    gen,        \* the generator of get_etfs: its state ("none", "created",
                \* "suspended", "Done", "raised") and the exception that left it
    page,       \* the local variable page of get_etfs (0 before the body starts)
    fetched,    \* history: the calls made to _scrape_page, in order
    yielded,    \* the lists the generator has produced, in order
    ret,        \* what get_all_etfs returned (or raised)
    logged,     \* the messages passed to logger.error
    obj,        \* the raw row handed to _parse_etf_record
    parsed,     \* what _parse_etf_record did with obj
    \* ---- _etfdb_client.py ----
    etfs_list_json, \* the symbols in data/etfs/etfs_list.json, as on disk now
    cache,      \* the lru_cache of get_available_etfs_list
    loads,      \* history: what each call of _load_available_etfs returned
    client,     \* the last ETFDBClient(ticker): the argument, what __init__
                \* did, self._ticker, self._ticker_url, the list it looked
                \* in, and whether the file on disk still held that list
    soup,       \* self._soup: the parsed document
    out         \* what the last extractor call on the client did

scraperVars == <<caller, gen, page, fetched, yielded, ret, logged>>
parseVars == <<obj, parsed>>
clientVars == <<etfs_list_json, cache, loads, client>>
docVars == <<soup, out>>
vars ==
    <<caller, gen, page, fetched, yielded, ret, logged, obj, parsed,
      etfs_list_json, cache, loads, client, soup, out>>

---------------------------------------------------------------------------
(* Python values *)

\* Python's None. Every string the model draws differs from it.
None == "<None>"

EmptyDict == [k \in {} |-> None]

\* All dictionaries with keys among K and values among V.
Dicts(K, V) == UNION { [D -> V] : D \in SUBSET K }

\* dict.get(k, default)
Get(d, k, default) == IF k \in DOMAIN d THEN d[k] ELSE default

Return(v) == [status |-> "ok", value |-> v, exc |-> "none"]
Raise(e) == [status |-> "raise", value |-> None, exc |-> e]
Pending == [status |-> "pending", value |-> None, exc |-> "none"]

\* self._base_url of BaseClient
base_url == "https://etfdb.com"

---------------------------------------------------------------------------
(* Bounds *)

\* pages the catalog endpoint serves before it must answer with no rows
MaxPages == 3
\* rows on one page
MaxPageRows == 2

---------------------------------------------------------------------------
(* _etfdb_scraper.py: the catalog record normalizer *)

\* The raw rows of the catalog endpoint: an object that may hold "symbol"
\* (an object that may hold "text" and "url"), "name" (an object that may
\* hold "text") and four scalar fields; any of them may be missing.
ScalarKeys == {"one_week_return", "ytd", "three_ytd", "five_ytd"}
RecordKeys ==
    {"symbol", "name", "url", "one_week_return", "one_year_return",
     "three_year_return", "five_year_return"}
OptSymbol ==
    {EmptyDict} \cup
    { [symbol |-> d] : d \in Dicts({"text", "url"}, {"SPY", "/etf/SPY/"}) }
OptName == {EmptyDict} \cup { [name |-> d] : d \in Dicts({"text"}, {"SPDR S&P 500"}) }
RawRows ==
    { s @@ n @@ sc : s \in OptSymbol, n \in OptName,
                     sc \in Dicts(ScalarKeys, {"1.5%"}) }

\* str + x: concatenation, a TypeError when x is None
StrPlus(s, x) == IF x = None THEN Raise("TypeError") ELSE Return(s \o x)

_parse_etf_record(o) ==
    LET symbol == Get(o, "symbol", EmptyDict)
        name == Get(o, "name", EmptyDict)
        url == StrPlus(base_url, Get(symbol, "url", None))
    IN  IF url.status = "raise" THEN url
        ELSE Return([symbol |-> Get(symbol, "text", None),
                     name |-> Get(name, "text", None),
                     url |-> url.value,
                     one_week_return |-> Get(o, "one_week_return", None),
                     one_year_return |-> Get(o, "ytd", None),
                     three_year_return |-> Get(o, "three_ytd", None),
                     five_year_return |-> Get(o, "five_ytd", None)])

\* list(self._prepare_etfs_list(etfs)): the records of the rows in order; the
\* first row whose normalization raises ends it with that exception.
RECURSIVE _prepare_etfs_list(_)
_prepare_etfs_list(etfs) ==
    IF etfs = <<>> THEN Return(<<>>)
    ELSE LET r == _parse_etf_record(Head(etfs))
         IN  IF r.status = "raise" THEN r
             ELSE LET rest == _prepare_etfs_list(Tail(etfs))
                  IN  IF rest.status = "raise" THEN rest
                      ELSE Return(<<r.value>> \o rest.value)

---------------------------------------------------------------------------
(* _etfdb_scraper.py: one page fetch *)

\* The rows the pagination is run on: a complete row, a row without ytd and
\* a row whose symbol has no url.
GoodRow == [symbol |-> [text |-> "SPY", url |-> "/etf/SPY/"],
            name |-> [text |-> "SPDR S&P 500"],
            one_week_return |-> "1.5%", ytd |-> "1.5%",
            three_ytd |-> "1.5%", five_ytd |-> "1.5%"]
NoYtdRow == [symbol |-> [text |-> "SPY", url |-> "/etf/SPY/"],
             name |-> [text |-> "SPDR S&P 500"],
             one_week_return |-> "1.5%",
             three_ytd |-> "1.5%", five_ytd |-> "1.5%"]
NoUrlRow == [symbol |-> [text |-> "SPY"],
             name |-> [text |-> "SPDR S&P 500"],
             one_week_return |-> "1.5%", ytd |-> "1.5%",
             three_ytd |-> "1.5%", five_ytd |-> "1.5%"]
RowSamples == {GoodRow, NoYtdRow, NoUrlRow}

SeqsUpTo(S, n) == UNION { [1..k -> S] : k \in 0..n }

\* What self.post_request(request_body) can do:
\*   ConnectionError, Timeout   the request raises
\*   NoResponse                 what it returns has no json attribute
\*   NotJson                    the body is not JSON
\*   NotObject                  the JSON value is not an object (an array)
\*   NoDataKey                  the JSON object has no "data"
\*   Data                       the JSON object holds "data": the rows
FailureKinds ==
    {"ConnectionError", "Timeout", "NoResponse", "NotJson", "NotObject", "NoDataKey"}
Response(kind, rows) == [kind |-> kind, data |-> rows]
\* The catalog is finite: page MaxPages has no rows.
Responses(p) ==
    { Response(k, <<>>) : k \in FailureKinds } \cup
    { Response("Data", rows) :
        rows \in { r \in SeqsUpTo(RowSamples, MaxPageRows) : p < MaxPages \/ r = <<>> } }

\* self.post_request(request_body).json()["data"]
PostJsonData(resp) ==
    CASE resp.kind = "ConnectionError" -> Raise("ConnectionError")
      [] resp.kind = "Timeout" -> Raise("Timeout")
      [] resp.kind = "NoResponse" -> Raise("AttributeError")
      [] resp.kind = "NotJson" -> Raise("ValueError")
      [] resp.kind = "NotObject" -> Raise("TypeError")
      [] resp.kind = "NoDataKey" -> Raise("KeyError")
      [] resp.kind = "Data" -> [status |-> "ok", value |-> resp.data, exc |-> "none"]

\* the exceptions of the two except clauses of _scrape_page
CaughtTransport == {"ConnectionError", "Timeout"}
CaughtStructural == {"AttributeError", "KeyError"}

\* _scrape_page without its second except clause
_scrape_page_NoStructural(resp) ==
    LET r == PostJsonData(resp)
    IN  IF r.status = "ok" THEN [result |-> r, log |-> <<>>]
        ELSE IF r.exc \in CaughtTransport
        THEN [result |-> Return(<<>>), log |-> <<"connection timeout">>]
        ELSE [result |-> r, log |-> <<>>]

\* _scrape_page: its result and what it passes to logger.error
_scrape_page(resp) ==
    LET r == PostJsonData(resp)
    IN  IF r.status = "ok" THEN [result |-> r, log |-> <<>>]
        ELSE IF r.exc \in CaughtTransport
        THEN [result |-> Return(<<>>), log |-> <<"connection timeout">>]
        ELSE IF r.exc \in CaughtStructural
        THEN [result |-> Return(<<>>), log |-> <<"another exception happened">>]
        ELSE [result |-> r, log |-> <<>>]

---------------------------------------------------------------------------
(* _etfdb_scraper.py: get_etfs and get_all_etfs *)

\* get_etfs that asks for the same page again
NextPage_NoIncrement(g, p) == IF g = "created" THEN 1 ELSE p
\* page = 1 when the body starts, page += 1 after each yield
NextPage(g, p) == IF g = "created" THEN 1 ELSE p + 1

\* itertools.chain(*lists) that drops the first list
RECURSIVE Chain_DropFirst(_)
Chain_DropFirst(lists) ==
    IF Len(lists) <= 1 THEN <<>> ELSE Head(Tail(lists)) \o Chain_DropFirst(Tail(lists))
\* list(itertools.chain(*lists))
RECURSIVE Chain(_)
Chain(lists) == IF lists = <<>> THEN <<>> ELSE Head(lists) \o Chain(Tail(lists))

FreshGenerator(who) ==
    /\ caller' = who
    /\ gen' = [state |-> "created", exc |-> "none"]
    /\ page' = 0
    /\ fetched' = <<>>
    /\ yielded' = <<>>
    /\ ret' = Pending
    /\ logged' = <<>>
    /\ UNCHANGED <<parseVars, clientVars, docVars>>

\* get_etfs(): a new generator; its body has not started
CallGetEtfs ==
    /\ caller # "get_all_etfs" \/ ret.status # "pending"
    /\ FreshGenerator("get_etfs")

\* get_all_etfs(): etfs_gen = ETFListScraper().get_etfs(page_size)
CallGetAllEtfs ==
    /\ caller # "get_all_etfs" \/ ret.status # "pending"
    /\ FreshGenerator("get_all_etfs")

\* One next() on the generator: the body runs from where it stands to its
\* next yield, to its break, or to the exception that leaves it.
GenNext ==
    /\ gen.state \in {"created", "suspended"}
    /\ LET p == NextPage(gen.state, page)
       IN  \E resp \in Responses(p) :
             LET sp == _scrape_page(resp)
                 r == sp.result
                 etfs == IF r.status = "ok" THEN r.value ELSE <<>>
                 recs == _prepare_etfs_list(etfs)
             IN  /\ page' = p
                 /\ fetched' = Append(fetched,
                        [page |-> p, resp |-> resp, etfs |-> etfs, exc |-> r.exc])
                 /\ logged' = logged \o sp.log
                 /\ IF r.status = "raise"
                    THEN gen' = [state |-> "raised", exc |-> r.exc] /\ UNCHANGED yielded
                    ELSE IF etfs = <<>>
                    THEN gen' = [state |-> "Done", exc |-> "none"] /\ UNCHANGED yielded
                    ELSE IF recs.status = "raise"
                    THEN gen' = [state |-> "raised", exc |-> recs.exc] /\ UNCHANGED yielded
                    ELSE /\ gen' = [state |-> "suspended", exc |-> "none"]
                         /\ yielded' = Append(yielded, recs.value)
    /\ UNCHANGED <<caller, ret, parseVars, clientVars, docVars>>

\* get_all_etfs, once the generator is exhausted: the flattened list, or the
\* exception that left the generator.
ReturnAllEtfs ==
    /\ caller = "get_all_etfs"
    /\ ret.status = "pending"
    /\ gen.state \in {"Done", "raised"}
    /\ ret' = IF gen.state = "Done"
              THEN [status |-> "ok", value |-> Chain(yielded), exc |-> "none"]
              ELSE [status |-> "raise", value |-> <<>>, exc |-> gen.exc]
    /\ UNCHANGED <<caller, gen, page, fetched, yielded, logged, parseVars,
                   clientVars, docVars>>

---------------------------------------------------------------------------
(* SpecParse: _parse_etf_record applied to every raw row *)

ScraperIdle ==
    /\ caller = "none" /\ gen = [state |-> "none", exc |-> "none"] /\ page = 0
    /\ fetched = <<>> /\ yielded = <<>> /\ ret = Pending /\ logged = <<>>

ParseIdle == obj = EmptyDict /\ parsed = Pending

NoSoup == [fetched |-> FALSE]
NoClient ==
    [ticker |-> <<>>, status |-> "none", exc |-> "none", named |-> <<>>,
     _ticker |-> <<>>, _ticker_url |-> "", looked_in |-> <<>>,
     file_changed |-> FALSE]
NotCached == [hit |-> FALSE, value |-> <<>>]

ClientIdle ==
    /\ etfs_list_json = <<>> /\ cache = NotCached /\ loads = <<>>
    /\ client = NoClient

DocIdle == soup = NoSoup /\ out = Pending

InitParse ==
    obj \in RawRows /\ parsed = Pending /\ ScraperIdle /\ ClientIdle /\ DocIdle

ParseRecord ==
    /\ parsed.status = "pending"
    /\ parsed' = _parse_etf_record(obj)
    /\ UNCHANGED <<obj, scraperVars, clientVars, docVars>>

NextRow ==
    /\ parsed.status # "pending"
    /\ obj' \in RawRows
    /\ parsed' = Pending
    /\ UNCHANGED <<scraperVars, clientVars, docVars>>

NextParse == ParseRecord \/ NextRow

SpecParse == InitParse /\ [][NextParse]_vars

\* the upstream source of each field of a CatalogRecord
Upstream(o, field) ==
    CASE field = "symbol" -> Get(Get(o, "symbol", EmptyDict), "text", None)
      [] field = "name" -> Get(Get(o, "name", EmptyDict), "text", None)
      [] field = "url" -> Get(Get(o, "symbol", EmptyDict), "url", None)
      [] field = "one_week_return" -> Get(o, "one_week_return", None)
      [] field = "one_year_return" -> Get(o, "ytd", None)
      [] field = "three_year_return" -> Get(o, "three_ytd", None)
      [] field = "five_year_return" -> Get(o, "five_ytd", None)

\* C4: whichever upstream fields of a raw row are missing, _parse_etf_record
\* returns a record with all seven keys, an absent (None) value for each
\* field whose upstream source is missing, and never raises.
C4_NeverRaises ==
    parsed.status # "pending" =>
        /\ parsed.status = "ok"
        /\ DOMAIN parsed.value = RecordKeys
        /\ \A f \in RecordKeys :
              Upstream(obj, f) = None => parsed.value[f] = None

\* What the code does hold to: it raises exactly when symbol.url is missing,
\* and otherwise every missing source gives None.
C4_RaisesIffNoUrl ==
    parsed.status # "pending" =>
        IF Upstream(obj, "url") = None
        THEN parsed.status = "raise" /\ parsed.exc = "TypeError"
        ELSE /\ parsed.status = "ok"
             /\ DOMAIN parsed.value = RecordKeys
             /\ \A f \in RecordKeys :
                   Upstream(obj, f) = None => parsed.value[f] = None

\* a row missing ytd (and nothing the url needs) has been normalized
C4_MissingYtdParsed ==
    /\ parsed.status = "ok"
    /\ "ytd" \notin DOMAIN obj
    /\ parsed.value["one_year_return"] = None

---------------------------------------------------------------------------
(* SpecScraper: calls of get_etfs and get_all_etfs against the endpoint *)

InitScraper == ScraperIdle /\ ParseIdle /\ ClientIdle /\ DocIdle

NextScraper == CallGetEtfs \/ CallGetAllEtfs \/ GenNext \/ ReturnAllEtfs

SpecScraper == InitScraper /\ [][NextScraper]_vars

Last(q) == q[Len(q)]

\* C1: in one run of get_etfs the pages asked of _scrape_page are 1, 2, ...
\* in that order, each once; no page is asked for after one that came back
\* empty; the generator is Done exactly when the last fetch came back empty,
\* and has then produced one list per page before it. Once Done, nothing more
\* is fetched or produced until a fresh call, which starts again at page 1.
C1_PagesInOrder ==
    /\ \A i \in 1..Len(fetched) : fetched[i].page = i
    /\ \A i \in 1..(Len(fetched) - 1) :
          fetched[i].exc = "none" /\ fetched[i].etfs # <<>>
    /\ gen.state = "Done" <=>
          /\ fetched # <<>>
          /\ Last(fetched).exc = "none"
          /\ Last(fetched).etfs = <<>>
    /\ gen.state = "Done" => Len(yielded) = Len(fetched) - 1
    /\ gen.state = "suspended" => Len(yielded) = Len(fetched)
    /\ gen.state = "created" => fetched = <<>> /\ yielded = <<>>
C1_DoneIsTerminal ==
    gen.state = "Done" =>
        \/ UNCHANGED <<gen, page, fetched, yielded>>
        \/ gen'.state = "created" /\ page' = 0 /\ fetched' = <<>> /\ yielded' = <<>>
C1_Pagination == []C1_PagesInOrder /\ [][C1_DoneIsTerminal]_vars

\* pages 1 and 2 gave rows, page 3 came back empty, the generator is Done
C1_ThreePagesDone ==
    /\ gen.state = "Done"
    /\ Len(fetched) = 3
    /\ Len(yielded) = 2
    /\ Last(fetched).resp.kind = "Data"

\* the record the normalizer is to give for a raw row
NormalRecord(o) ==
    [f \in RecordKeys |->
        IF f = "url" /\ Upstream(o, f) # None
        THEN base_url \o Upstream(o, f) ELSE Upstream(o, f)]
NormalizedPage(rows) == [j \in 1..Len(rows) |-> NormalRecord(rows[j])]
AllPagesAreData == \A i \in 1..Len(fetched) : fetched[i].resp.kind = "Data"
ConcatOfPagesBeforeLast ==
    Chain([i \in 1..(Len(fetched) - 1) |-> NormalizedPage(fetched[i].etfs)])

\* C2: for every sequence of page responses whose first empty page is page
\* k, get_all_etfs returns the concatenation, in page and row order, of the
\* normalized records of pages 1..k-1.
C2_ReturnsFlatConcat ==
    (caller = "get_all_etfs" /\ ret.status # "pending" /\ AllPagesAreData) =>
        /\ ret.status = "ok"
        /\ ret.value = ConcatOfPagesBeforeLast

\* What get_all_etfs does hold to: when it returns, it returns that list.
C2_ConcatWhenReturned ==
    (caller = "get_all_etfs" /\ ret.status = "ok") =>
        ret.value = ConcatOfPagesBeforeLast

TransportFailures == {"ConnectionError", "Timeout"}
StructuralFailures == {"NoResponse", "NoDataKey"}

---------------------------------------------------------------------------
(* _etfdb_client.py: text *)

\* Text the code trims or changes case of is a sequence of characters;
\* Join gives the string it spells.
RECURSIVE Join(_)
Join(cs) == IF cs = <<>> THEN "" ELSE Head(cs) \o Join(Tail(cs))

RECURSIVE Reverse(_)
Reverse(cs) == IF cs = <<>> THEN <<>> ELSE Append(Reverse(Tail(cs)), Head(cs))

IsSpace(c) == c \in {" ", "\n"}

RECURSIVE LStrip(_)
LStrip(cs) ==
    IF cs # <<>> /\ IsSpace(Head(cs)) THEN LStrip(Tail(cs)) ELSE cs

\* str.strip()
Strip(cs) == Reverse(LStrip(Reverse(LStrip(cs))))

\* dict(pairs) and the dict comprehension: the last pair with a key gives its value
DictOfPairs(pairs) ==
    LET keys == { pairs[i][1] : i \in 1..Len(pairs) }
        last(k) == CHOOSE i \in 1..Len(pairs) :
                      /\ pairs[i][1] = k
                      /\ \A j \in (i + 1)..Len(pairs) : pairs[j][1] # k
    IN  [k \in keys |-> pairs[last(k)][2]]

\* d.update(e)
Update(d, e) == e @@ d

\* {k: v for k, v in d.items() if v != x}
WithoutValue(d, x) == [k \in { k \in DOMAIN d : d[k] # x } |-> d[k]]

---------------------------------------------------------------------------
(* _etfdb_client.py: the trading-data extractor *)

\* items in the trading-data list of a document
MaxItems == 2

\* The document's "data-trading bar-charts-table" div: whether it is there,
\* and its <li> items, each the raw texts of its children in order.
RawLabels == { <<"A", "U", "M">>, <<" ", "A", "U", "M", "\n">>, <<"S", "h">> }
RawValues == { <<>>, <<" ", "\n">>, <<"5">>, <<" ", "5", " ">>, <<"6">> }
TradingItems ==
    { <<l, v>> : l \in RawLabels, v \in RawValues } \cup { <<l>> : l \in RawLabels }
TradingRegions ==
    { [present |-> FALSE, items |-> <<>>] } \cup
    { [present |-> TRUE, items |-> q] : q \in SeqsUpTo(TradingItems, MaxItems) }

\* _trading_data without its final filter
_trading_data_NoFilter(doc) ==
    LET items == doc.trading.items
    IN  IF ~doc.trading.present THEN Raise("AttributeError")
        ELSE IF \E i \in 1..Len(items) : Len(items[i]) < 2
        THEN Raise("AttributeError")
        ELSE
          LET trading_dict ==
                DictOfPairs([i \in 1..Len(items) |->
                    <<Join(Strip(items[i][1])), Join(Strip(items[i][2]))>>])
          IN  Return(trading_dict)

\* _trading_data: soup.find(...) of a missing div is None, and so is
\* li.select_one(":nth-child(n)") of a missing child: an AttributeError.
_trading_data(doc) ==
    LET items == doc.trading.items
    IN  IF ~doc.trading.present THEN Raise("AttributeError")
        ELSE IF \E i \in 1..Len(items) : Len(items[i]) < 2
        THEN Raise("AttributeError")
        ELSE
          LET trading_dict ==
                DictOfPairs([i \in 1..Len(items) |->
                    <<Join(Strip(items[i][1])), Join(Strip(items[i][2]))>>])
          IN  Return(WithoutValue(trading_dict, ""))

---------------------------------------------------------------------------
(* _etfdb_client.py: the other extractors that the profile and the holdings
   are assembled from *)

\* A value of the merged profile is a str or a dict of strs.
PyStr(x) == [type |-> "str", str |-> x, dict |-> EmptyDict]
PyDict(d) == [type |-> "dict", str |-> "", dict |-> d]
StrValues(d) == [k \in DOMAIN d |-> PyStr(d[k])]
DictValues(d) == [k \in DOMAIN d |-> PyDict(d[k])]

\* pyetf.utils._handle_spans: the (label, value) of a row's spans, None when
\* the spans are no label/value pair
_handle_spans(spans) ==
    IF Len(spans) = 2
    THEN [record |-> TRUE, pair |-> <<spans[1], spans[2]>>]
    ELSE [record |-> FALSE, pair |-> <<"", "">>]

\* the rows of find_all that gave a record, in order
RECURSIVE RecordsOf(_)
RecordsOf(rows) ==
    IF rows = <<>> THEN <<>>
    ELSE LET record == _handle_spans(Head(rows))
         IN  IF record.record THEN <<record.pair>> \o RecordsOf(Tail(rows))
             ELSE RecordsOf(Tail(rows))

\* pyetf.utils.handle_find_all_rows: the label -> value map of the rows
handle_find_all_rows(rows) == DictOfPairs(RecordsOf(rows))

\* pyetf.utils.chunkify(values, 2): consecutive slices of two
RECURSIVE chunkify2(_)
chunkify2(values) ==
    IF values = <<>> THEN <<>>
    ELSE IF Len(values) = 1 THEN <<values>>
    ELSE <<SubSeq(values, 1, 2)>> \o chunkify2(SubSeq(values, 3, Len(values)))

_profile_container(doc) ==
    IF ~doc.profile_container.present THEN Raise("AttributeError")
    ELSE Return(DictOfPairs(RecordsOf(doc.profile_container.rows)))

\* theme[1] is the second block
_asset_categories(doc) ==
    LET theme == doc.ticker_assets
    IN  IF ~doc.ticker_body.present THEN Raise("AttributeError")
        ELSE IF theme = <<>> \/ Len(theme) < 1 THEN Return(EmptyDict)
        ELSE IF Len(theme) < 2 THEN Raise("IndexError")
        ELSE Return(handle_find_all_rows(theme[2]))

_factset_classification(doc) ==
    IF ~doc.factset.present THEN Raise("AttributeError")
    ELSE Return(handle_find_all_rows(doc.factset.rows))

\* handle_tbody_thead(self._soup, "holdings-table")
_number_of_holdings(doc) == Return(doc.holdings_table)

Min(a, b) == IF a < b THEN a ELSE b

\* results[k][name] = v for name, (k, v) in zip(names, chunkify(values, 2))
_valuation(doc) ==
    LET v == doc.valuation
    IN  IF ~v.tab \/ ~v.valuation THEN Raise("AttributeError")
        ELSE IF Len(v.rows) < 2 THEN Raise("IndexError")
        ELSE
          LET names == v.rows[2].h4
              chunks == chunkify2(v.rows[2].text_center)
              n == Min(Len(names), Len(chunks))
              keys == { chunks[i][1] : i \in 1..n }
              of(k) == DictOfPairs(
                         SelectSeq([i \in 1..n |-> <<names[i], chunks[i]>>],
                                   LAMBDA nc : nc[2][1] = k))
          IN  IF \E i \in 1..n : Len(chunks[i]) # 2 THEN Raise("ValueError")
              ELSE Return([k \in keys |-> [nm \in DOMAIN of(k) |-> of(k)[nm][2]]])

---------------------------------------------------------------------------
(* _etfdb_client.py: _holdings *)

HoldingKeys == <<"Symbol", "Holding", "Share">>

\* dict(zip(["Symbol", "Holding", "Share"], texts)), then update({"Url": url})
HoldingEntry(tds, url) ==
    LET n == Min(Len(tds), Len(HoldingKeys))
    IN  Update(DictOfPairs([i \in 1..n |-> <<HoldingKeys[i], tds[i]>>]),
               [Url |-> url])

\* the loop over the rows of the table body: the entries, or the KeyError of
\* an anchor without href, which no except clause of _holdings catches
RECURSIVE HoldingRows(_)
HoldingRows(rows) ==
    IF rows = <<>> THEN Return(<<>>)
    ELSE LET record == Head(rows)
             holding_url == IF record.a = "none" THEN "" ELSE base_url \o record.href
             rest == HoldingRows(Tail(rows))
         IN  IF record.a = "nohref" THEN Raise("KeyError")
             ELSE IF rest.status = "raise" THEN rest
             ELSE Return(<<HoldingEntry(record.tds, holding_url)>> \o rest.value)

\* the try block of _holdings: AttributeError (no section, no tbody) gives []
HoldingsList(doc) ==
    LET h == doc.holding_section
    IN  IF ~h.present \/ ~h.tbody THEN Return(<<>>)
        ELSE HoldingRows(h.rows)

_holdings(doc) ==
    LET results == HoldingsList(doc)
        statistics == _number_of_holdings(doc)
        allocation == _asset_categories(doc)
    IN  IF results.status = "raise" THEN results
        ELSE IF statistics.status = "raise" THEN statistics
        ELSE IF allocation.status = "raise" THEN allocation
        ELSE Return([Statistics |-> statistics.value,
                     Allocation |-> allocation.value,
                     Holdings |-> results.value])

---------------------------------------------------------------------------
(* _etfdb_client.py: _basic_info *)

\* pyetf.utils._handle_nth_child(row, 1): the trimmed text of the first child
_handle_nth_child(row) == Join(Strip(row.key))

\* The value of one row of the ticker body: the link of the second child,
\* made absolute unless the key is "ETF Home Page"; its trimmed text when it
\* holds no anchor or the anchor has no href. The result of
\* value_text.replace(...) is dropped, so that branch changes nothing.
RowValueText(row) ==
    LET key == _handle_nth_child(row)
    IN  IF row.a = "href"
        THEN IF row.href # "" /\ key # "ETF Home Page"
             THEN base_url \o row.href
             ELSE row.href
        ELSE Join(Strip(row.text))

\* the loop over the rows: basic_information after it, or the AttributeError
\* of a row without a second child (value is None, value.find raises)
RECURSIVE BasicRows(_, _)
BasicRows(basic_information, rows) ==
    IF rows = <<>> THEN Return(basic_information)
    ELSE LET row == Head(rows)
         IN  IF ~row.cell THEN Raise("AttributeError")
             ELSE BasicRows(
                    Update(basic_information,
                           (_handle_nth_child(row) :> PyStr(RowValueText(row)))),
                    Tail(rows))

\* dict.pop(k) when k is in the dict
Pop(d, k) == [x \in DOMAIN d \ {k} |-> d[x]]

\* the sections _basic_info merges after the rows, in the order of its
\* update calls
MergedSections(doc) ==
    << [name |-> "profile_container",
        section |-> _profile_container(doc), wrap |-> "str"],
       [name |-> "valuation", section |-> _valuation(doc), wrap |-> "dict"],
       [name |-> "trading_data", section |-> _trading_data(doc), wrap |-> "str"],
       [name |-> "asset_categories",
        section |-> _asset_categories(doc), wrap |-> "str"],
       [name |-> "factset_classification",
        section |-> _factset_classification(doc), wrap |-> "str"] >>

\* the same sections with trading data merged last
MergedSections_TradingLast(doc) ==
    << MergedSections(doc)[1], MergedSections(doc)[2], MergedSections(doc)[4],
       MergedSections(doc)[5], MergedSections(doc)[3] >>

\* the order _basic_info applies them in
MergeOrder(doc) == MergedSections(doc)

Wrapped(m) ==
    IF m.wrap = "dict" THEN DictValues(m.section.value) ELSE StrValues(m.section.value)

\* basic_information.update(section) for each section in turn; the first
\* extractor that raises leaves _basic_info with its exception
RECURSIVE MergeAll(_, _)
MergeAll(basic_information, sections) ==
    IF sections = <<>> THEN Return(basic_information)
    ELSE LET m == Head(sections)
         IN  IF m.section.status = "raise" THEN m.section
             ELSE MergeAll(Update(basic_information, Wrapped(m)), Tail(sections))

\* the last two statements of _basic_info, without the pop
Deliver_NoPop(basic_information) == basic_information
\* if "Analyst Report" in basic_information: basic_information.pop(...)
Deliver(basic_information) ==
    IF "Analyst Report" \in DOMAIN basic_information
    THEN Pop(basic_information, "Analyst Report")
    ELSE basic_information

_basic_info(self, doc) ==
    LET tb == doc.ticker_body
        initial == [Symbol |-> PyStr(Join(self._ticker)),
                    Url |-> PyStr(self._ticker_url)]
        afterRows == BasicRows(initial, tb.rows)
        merged == MergeAll(afterRows.value, MergeOrder(doc))
    IN  IF ~tb.present \/ ~tb.row THEN Raise("AttributeError")
        ELSE IF afterRows.status = "raise" THEN afterRows
        ELSE IF merged.status = "raise" THEN merged
        ELSE Return(Deliver(merged.value))

---------------------------------------------------------------------------
(* The documents *)

\* A parsed document, by the regions the extractors look for. This one has
\* every region, each without rows.
EmptyDocument ==
    [ticker_body |-> [present |-> TRUE, row |-> TRUE, rows |-> <<>>],
     ticker_assets |-> << <<>>, <<>> >>,
     profile_container |-> [present |-> TRUE, rows |-> <<>>],
     valuation |-> [tab |-> TRUE, valuation |-> TRUE,
                    rows |-> << [h4 |-> <<>>, text_center |-> <<>>],
                                [h4 |-> <<>>, text_center |-> <<>>] >>],
     trading |-> [present |-> TRUE, items |-> <<>>],
     factset |-> [present |-> TRUE, rows |-> <<>>],
     holding_section |-> [present |-> TRUE, tbody |-> TRUE, rows |-> <<>>],
     holdings_table |-> EmptyDict]

\* the document a successful GET of the ticker's page is parsed into
ServedDocuments == { EmptyDocument }

---------------------------------------------------------------------------
(* _etfdb_client.py: the memoized catalog and ETFDBClient.__init__ *)

\* characters in a ticker the caller passes
MaxTickerLen == 2
\* entries in etfs_list.json
MaxCatalog == 2

Letters == {"a", "A", "B"}
UpperChar(c) == CASE c = "a" -> "A" [] c = "b" -> "B" [] OTHER -> c

\* str.upper()
Upper(cs) == [i \in DOMAIN cs |-> UpperChar(cs[i])]

Tickers == SeqsUpTo(Letters, MaxTickerLen)

\* etfs_list.json is a JSON array of objects with a "symbol"; the symbols of
\* the catalog are upper-case tickers.
CatalogSymbols == { <<"A">>, <<"A", "B">> }
CatalogFiles == SeqsUpTo({ [symbol |-> sy] : sy \in CatalogSymbols }, MaxCatalog)

\* json.load of the file
_load_available_etfs(file) == file

\* [etf["symbol"] for etf in data]
SymbolsOf(data) == [i \in 1..Len(data) |-> data[i].symbol]

Range(q) == { q[i] : i \in 1..Len(q) }

\* get_available_etfs_list without functools.lru_cache
get_available_etfs_list_NoCache(c, file) ==
    LET data == _load_available_etfs(file)
        symbols == SymbolsOf(data)
    IN  [symbols |-> symbols, cache |-> c, loaded |-> TRUE]

\* get_available_etfs_list under functools.lru_cache(): the cached list on a
\* hit; on a miss the file is loaded and its symbol list cached
get_available_etfs_list(c, file) ==
    IF c.hit THEN [symbols |-> c.value, cache |-> c, loaded |-> FALSE]
    ELSE LET data == _load_available_etfs(file)
             symbols == SymbolsOf(data)
         IN  [symbols |-> symbols,
              cache |-> [hit |-> TRUE, value |-> symbols],
              loaded |-> TRUE]

\* the test of __init__ without upper()
InCatalog_CaseSensitive(ticker, symbols) == ticker \in Range(symbols)
\* ticker.upper() in get_available_etfs_list()
InCatalog(ticker, symbols) == Upper(ticker) \in Range(symbols)

\* ETFDBClient(ticker): __init__, with the GET of _make_soup_request
NewClient ==
    \E ticker \in Tickers :
        LET got == get_available_etfs_list(cache, etfs_list_json)
            found == InCatalog(ticker, got.symbols)
            _ticker == Upper(ticker)
            made == [ticker |-> ticker, status |-> "ok", exc |-> "none",
                     named |-> <<>>,
                     _ticker |-> _ticker,
                     _ticker_url |-> base_url \o "/etf/" \o Join(_ticker),
                     looked_in |-> got.symbols,
                     file_changed |-> got.symbols # SymbolsOf(etfs_list_json)]
        IN  /\ cache' = got.cache
            /\ loads' = IF got.loaded THEN Append(loads, got.symbols) ELSE loads
            /\ IF ~found
               THEN /\ client' = [made EXCEPT !.status = "raise",
                                    !.exc = "InvalidETFException",
                                    !.named = ticker,
                                    !._ticker = <<>>, !._ticker_url = ""]
                    /\ soup' = NoSoup
               ELSE \E status_code \in {200, 404} :
                      IF status_code # 200
                      THEN /\ client' = [made EXCEPT !.status = "raise",
                                           !.exc = "Exception"]
                           /\ soup' = NoSoup
                      ELSE /\ client' = [made EXCEPT !.status = "ok", !.exc = "none"]
                           /\ soup' \in ServedDocuments
            /\ out' = Pending
            /\ UNCHANGED <<etfs_list_json, scraperVars, parseVars>>

\* the file on disk is replaced while the process runs
RewriteFile ==
    /\ etfs_list_json' \in CatalogFiles \ {etfs_list_json}
    /\ UNCHANGED <<cache, loads, client, docVars, scraperVars, parseVars>>

InitClient ==
    /\ etfs_list_json \in CatalogFiles
    /\ cache = NotCached /\ loads = <<>> /\ client = NoClient
    /\ DocIdle /\ ScraperIdle /\ ParseIdle

NextClient == NewClient \/ RewriteFile

SpecClient == InitClient /\ [][NextClient]_vars

\* a ticker is in a catalog, in whatever letter case it is written
PresentAnyCase(ticker, symbols) ==
    \E i \in 1..Len(symbols) : Upper(symbols[i]) = Upper(ticker)

\* C5: a ticker not in the loaded catalog fails with InvalidETFException
\* naming it; a ticker in the catalog, in any letter case, resolves to its
\* upper-case form, and the detail-page URL is built from that.
C5_TickerResolution ==
    client.status # "none" =>
        IF PresentAnyCase(client.ticker, client.looked_in)
        THEN /\ client.exc # "InvalidETFException"
             /\ client._ticker = Upper(client.ticker)
             /\ client._ticker_url = base_url \o "/etf/" \o Join(Upper(client.ticker))
        ELSE /\ client.status = "raise"
             /\ client.exc = "InvalidETFException"
             /\ client.named = client.ticker

\* a ticker written in lower case was resolved
C5_LowerCaseResolved ==
    /\ client.status = "ok"
    /\ client.ticker # client._ticker
    /\ client._ticker \in Range(client.looked_in)

\* C9: across any sequence of lookups the catalog file is loaded at most
\* once, on the first lookup; the list loaded then stays the cached one,
\* and every lookup is tested against it, whatever the file holds later.
C9_LoadedOnce ==
    /\ Len(loads) <= 1
    /\ cache.hit <=> Len(loads) = 1
    /\ client.status # "none" <=> Len(loads) = 1
    /\ cache.hit => cache.value = loads[1]
    /\ client.status # "none" => client.looked_in = loads[1]

\* a lookup made after the file changed was tested against the list loaded
\* first
C9_LaterLookupSameList ==
    /\ client.status # "none"
    /\ client.file_changed
    /\ client.looked_in = loads[1]

---------------------------------------------------------------------------
(* The extractors run on a constructed client *)

\* ETFDBClient("a") against a catalog that holds "A"
ConstructedClient ==
    [ticker |-> <<"a">>, status |-> "ok", exc |-> "none", named |-> <<>>,
     _ticker |-> <<"A">>, _ticker_url |-> base_url \o "/etf/" \o "A",
     looked_in |-> << <<"A">> >>, file_changed |-> FALSE]

Constructed ==
    /\ etfs_list_json = << [symbol |-> <<"A">>] >>
    /\ cache = [hit |-> TRUE, value |-> << <<"A">> >>]
    /\ loads = << << <<"A">> >> >>
    /\ client = ConstructedClient
    /\ out = Pending
    /\ ScraperIdle /\ ParseIdle

Called(result) ==
    /\ out.status = "pending"
    /\ out' = result
    /\ UNCHANGED <<soup, clientVars, scraperVars, parseVars>>

(* SpecTrading: _trading_data on every trading-data region *)

InitTrading ==
    /\ soup \in { [EmptyDocument EXCEPT !.trading = t] : t \in TradingRegions }
    /\ Constructed

Call_trading_data == Called(_trading_data(soup))

SpecTrading == InitTrading /\ [][Call_trading_data]_vars

ItemLabel(i) == Join(Strip(soup.trading.items[i][1]))
ItemValue(i) == Join(Strip(soup.trading.items[i][2]))
ItemIndices == 1..Len(soup.trading.items)
IsLastWithItsLabel(i) ==
    \A j \in ItemIndices : j > i => ItemLabel(j) # ItemLabel(i)

\* the claim of C10 as stated: no key maps to "", an item whose trimmed value
\* is "" contributes no key, and every item whose trimmed value is not empty
\* has its label in the output with that value
C10_EveryNonBlankItemAppears ==
    out.status = "ok" =>
        /\ \A k \in DOMAIN out.value : out.value[k] # ""
        /\ \A i \in ItemIndices :
              (ItemValue(i) = "" /\ ItemLabel(i) \in DOMAIN out.value) =>
                  \E j \in ItemIndices \ {i} :
                      ItemLabel(j) = ItemLabel(i) /\ ItemValue(j) # ""
        /\ \A i \in ItemIndices :
              ItemValue(i) # "" =>
                  /\ ItemLabel(i) \in DOMAIN out.value
                  /\ out.value[ItemLabel(i)] = ItemValue(i)

\* C10, amended: no key of the output maps to ""; the keys are trimmed
\* labels of the items; and for each label the last item that carries it
\* decides: a blank trimmed value there leaves the label out, any other
\* value puts the label in with that value.
C10_LastItemDecides ==
    out.status = "ok" =>
        /\ \A k \in DOMAIN out.value : out.value[k] # ""
        /\ DOMAIN out.value \subseteq { ItemLabel(i) : i \in ItemIndices }
        /\ \A i \in ItemIndices :
              IsLastWithItsLabel(i) =>
                  IF ItemValue(i) = ""
                  THEN ItemLabel(i) \notin DOMAIN out.value
                  ELSE /\ ItemLabel(i) \in DOMAIN out.value
                       /\ out.value[ItemLabel(i)] = ItemValue(i)

\* "AUM" with a blank value is left out, next to a label that is kept
C10_BlankAumDropped ==
    /\ out.status = "ok"
    /\ "AUM" \notin DOMAIN out.value
    /\ DOMAIN out.value # {}
    /\ \E i \in ItemIndices : ItemLabel(i) = "AUM" /\ ItemValue(i) = ""

(* SpecHoldings: _holdings on documents with and without the section *)

\* rows in the holdings table
MaxHoldingRows == 2

HoldingRowSamples ==
    { [tds |-> <<"AAPL", "Apple", "7%">>, a |-> "href", href |-> "/stock/AAPL"],
      [tds |-> <<"CASH", "Cash", "1%">>, a |-> "none", href |-> ""],
      [tds |-> <<"GOLD", "Gold">>, a |-> "none", href |-> ""],
      [tds |-> <<"MSFT", "Microsoft", "6%">>, a |-> "nohref", href |-> ""] }
HoldingSections ==
    { [present |-> FALSE, tbody |-> FALSE, rows |-> <<>>],
      [present |-> TRUE, tbody |-> FALSE, rows |-> <<>>] } \cup
    { [present |-> TRUE, tbody |-> TRUE, rows |-> q] :
        q \in SeqsUpTo(HoldingRowSamples, MaxHoldingRows) }
AssetBlocks ==
    { <<>>,
      << << <<"Category", "Equity">> >> >>,
      << << <<"Category", "Equity">> >>, << <<"Asset Class", "Equity">> >> >> }

InitHoldings ==
    /\ soup \in { [EmptyDocument EXCEPT !.holding_section = h,
                                       !.ticker_assets = t] :
                    h \in HoldingSections, t \in AssetBlocks }
    /\ Constructed

Call_holdings == Called(_holdings(soup))

SpecHoldings == InitHoldings /\ [][Call_holdings]_vars

SectionAbsent == ~soup.holding_section.present \/ ~soup.holding_section.tbody

OneEntryPerRow ==
    LET rows == soup.holding_section.rows
        holdings == out.value.Holdings
    IN  /\ Len(holdings) = Len(rows)
        /\ \A i \in 1..Len(rows) :
              /\ "Url" \in DOMAIN holdings[i]
              /\ Len(rows[i].tds) >= 1 => holdings[i]["Symbol"] = rows[i].tds[1]

\* C8: on a document without the holdings section, or without its table
\* body, _holdings returns a result whose Holdings list is empty and does
\* not raise; with the section present the list has one entry per row, in
\* row order.
C8_AbsentSectionGivesEmptyList ==
    out.status # "pending" =>
        IF SectionAbsent
        THEN out.status = "ok" /\ out.value.Holdings = <<>>
        ELSE out.status = "ok" => OneEntryPerRow

\* What _holdings does hold to: whenever it returns, Holdings is as claimed.
C8_HoldingsWhenReturned ==
    out.status = "ok" =>
        IF SectionAbsent THEN out.value.Holdings = <<>> ELSE OneEntryPerRow

(* SpecProfile: _basic_info on documents whose sections overlap *)

\* rows in the ticker body
MaxBasicRows == 2

BasicRowSamples ==
    { [key |-> <<" ", "AUM", " ">>, cell |-> TRUE, a |-> "nohref", href |-> "",
       text |-> <<"\n", "1", " ">>],
      [key |-> <<"Analyst Report">>, cell |-> TRUE, a |-> "href",
       href |-> "/report", text |-> <<"read">>],
      [key |-> <<"ETF Home Page">>, cell |-> TRUE, a |-> "href",
       href |-> base_url \o "/home", text |-> <<"home">>],
      [key |-> <<"Category">>, cell |-> FALSE, a |-> "none", href |-> "",
       text |-> <<>>] }
TickerBodies ==
    { [present |-> FALSE, row |-> FALSE, rows |-> <<>>],
      [present |-> TRUE, row |-> FALSE, rows |-> <<>>] } \cup
    { [present |-> TRUE, row |-> TRUE, rows |-> q] :
        q \in SeqsUpTo(BasicRowSamples, MaxBasicRows) }
ProfileContainers ==
    { [present |-> FALSE, rows |-> <<>>],
      [present |-> TRUE, rows |-> << <<"AUM", "p">> >>],
      [present |-> TRUE,
       rows |-> << <<"Analyst Report", "x">>, <<"junk">>, <<"Symbol", "p">> >>] }
Valuations ==
    { [tab |-> FALSE, valuation |-> FALSE, rows |-> <<>>],
      [tab |-> TRUE, valuation |-> TRUE,
       rows |-> << [h4 |-> <<>>, text_center |-> <<>>] >>],
      [tab |-> TRUE, valuation |-> TRUE,
       rows |-> << [h4 |-> <<>>, text_center |-> <<>>],
                   [h4 |-> <<"Current", "Rank">>,
                    text_center |-> <<"P/E Ratio", "20", "P/E Ratio", "3">>] >>],
      [tab |-> TRUE, valuation |-> TRUE,
       rows |-> << [h4 |-> <<>>, text_center |-> <<>>],
                   [h4 |-> <<"Current">>, text_center |-> <<"AUM", "v", "odd">>] >>] }
TradingSamples ==
    { [present |-> FALSE, items |-> <<>>],
      [present |-> TRUE, items |-> << << <<"A", "U", "M">>, <<"5">> >> >>],
      [present |-> TRUE,
       items |-> << << <<"A", "U", "M">>, <<" ", "\n">> >>,
                    << <<"Analyst Report">>, <<"t">> >> >>] }
AssetSamples ==
    { <<>>,
      << << <<"Category", "Equity">> >> >>,
      << << <<"Category", "Equity">> >>, << <<"AUM", "a">> >> >>,
      << << <<"Category", "Equity">> >>, << <<"Url", "a">> >> >> }
Factsets ==
    { [present |-> FALSE, rows |-> <<>>],
      [present |-> TRUE, rows |-> << <<"AUM", "f">> >>],
      [present |-> TRUE,
       rows |-> << <<"Analyst Report", "x">>, <<"Symbol", "f">> >>] }

InitProfile ==
    /\ soup \in { [EmptyDocument EXCEPT !.ticker_body = tb,
                                       !.profile_container = pc,
                                       !.valuation = va,
                                       !.trading = tr,
                                       !.ticker_assets = ta,
                                       !.factset = fs] :
                    tb \in TickerBodies, pc \in ProfileContainers,
                    va \in Valuations, tr \in TradingSamples,
                    ta \in AssetSamples, fs \in Factsets }
    /\ Constructed

Call_basic_info == Called(_basic_info(client, soup))

SpecProfile == InitProfile /\ [][Call_basic_info]_vars

\* What each extractor emitted, in the canonical merge order: the ticker-body
\* basics (Symbol, Url and the rows), the profile container, valuation,
\* trading data, asset categories, classification.
EmittedInCanonicalOrder ==
    << BasicRows([Symbol |-> PyStr(Join(client._ticker)),
                  Url |-> PyStr(client._ticker_url)], soup.ticker_body.rows).value,
       StrValues(_profile_container(soup).value),
       DictValues(_valuation(soup).value),
       StrValues(_trading_data(soup).value),
       StrValues(_asset_categories(soup).value),
       StrValues(_factset_classification(soup).value) >>

Emitters(k) ==
    { i \in 1..Len(EmittedInCanonicalOrder) : k \in DOMAIN EmittedInCanonicalOrder[i] }
Latest(S) == CHOOSE i \in S : \A j \in S : j <= i

\* C6: in the profile _basic_info assembles, every key has the value of the
\* extractor latest in the canonical merge order among those that emitted it
\* (so a key emitted by one extractor keeps that value), and every emitted
\* key other than "Analyst Report" is in the profile.
C6_LastAppliedWins ==
    out.status = "ok" =>
        /\ \A k \in DOMAIN out.value :
              /\ Emitters(k) # {}
              /\ out.value[k] = EmittedInCanonicalOrder[Latest(Emitters(k))][k]
        /\ \A i \in 1..Len(EmittedInCanonicalOrder) :
              DOMAIN EmittedInCanonicalOrder[i] \ {"Analyst Report"}
                  \subseteq DOMAIN out.value

\* "AUM" came from trading data and from the classification, with different
\* values, and the profile holds the classification's
C6_OverlapResolved ==
    /\ out.status = "ok"
    /\ {4, 6} \subseteq Emitters("AUM")
    /\ EmittedInCanonicalOrder[4]["AUM"] # EmittedInCanonicalOrder[6]["AUM"]
    /\ out.value["AUM"] = EmittedInCanonicalOrder[6]["AUM"]

\* C7: every profile _basic_info returns holds Symbol and Url and does not
\* hold "Analyst Report", whatever the extractors emitted.
C7_SymbolUrlNoAnalystReport ==
    out.status = "ok" =>
        /\ {"Symbol", "Url"} \subseteq DOMAIN out.value
        /\ "Analyst Report" \notin DOMAIN out.value

\* a profile was returned although a merged section held "Analyst Report"
C7_AnalystReportEmitted ==
    /\ out.status = "ok"
    /\ Emitters("Analyst Report") # {}
    /\ "Analyst Report" \notin DOMAIN out.value

=============================================================================
